---- MODULE Spec2Model ----
(***************************************************************************)
(* A model of satkit's Recording / Modality data structures                *)
(* (src/satkit/data_structures.py) and of the concrete Modality kinds      *)
(* Splines and SplineMetric.                                               *)
(*                                                                         *)
(* Python values are modelled as follows.                                  *)
(*   - An Optional value is a sequence of length 0 (None) or 1.            *)
(*   - A numpy array is a record [dtype, shape, vals]; vals holds the      *)
(*     entries along the first axis, shape is the numpy shape tuple.       *)
(*   - A raised exception is the name of its class; "" means the call      *)
(*     returned normally.                                                  *)
(*   - Every method is an operator from the object's state (and the        *)
(*     method's arguments) to a result [o, ret, err, calls]: the object    *)
(*     after the call, the returned value, the exception raised and the    *)
(*     list of loader routines (_read_data, _load_data, _derive_data) the  *)
(*     call invoked, in order.                                             *)
(***************************************************************************)
EXTENDS Integers, Sequences, FiniteSets, TLC

VARIABLES
    heap,        \* object id -> Optional Modality object (the instances that exist)
    modalities,  \* Recording.modalities: the dict, as its list of (name, id) items
    recording,   \* the Recording: its fields other than the modalities dict
    last         \* the last call made: what was called, on what, and its outcome

vars == <<heap, modalities, recording, last>>

\* ------------------------------------------------------------------ bounds
\* Number of Modality instances that can exist at once.
MaxMods == 2
\* Largest first-axis length of the arrays and timevectors that are drawn.
MaxLen == 2
\* Largest timestep of the metric parameters that are drawn.
MaxTimestep == 2
\* Largest downsampling ratio that is drawn.
MaxRatio == 2
\* Largest number of intervals of the tiers that are drawn.
MaxIntervals == 3
\* Latest time of a tier boundary.
MaxTime == 4

\* ------------------------------------------------------------ Python values
None == <<>>
Some(v) == <<v>>

NoError == ""

\* The value of a step, bound so that the steps after it work on the value.
The(S) == CHOOSE x \in S : TRUE

\* Python truthiness of an Optional string (None and "" are falsy).
TruthyStr(s) == s # None /\ s[1] # ""

\* Python truthiness of an Optional number (None and 0 are falsy).
TruthyNum(x) == x # None /\ x[1] # 0

\* A rate in Hz: the fraction num/den in lowest terms, so that a division by
\* a downsampling ratio is exact.
Hz(n) == <<n, 1>>

RECURSIVE GCD(_, _)
GCD(a, b) == IF b = 0 THEN a ELSE GCD(b, a % b)

\* rate / ratio
RateDiv(rate, ratio) ==
    LET g == GCD(rate[1], rate[2] * ratio)
    IN  <<rate[1] \div g, (rate[2] * ratio) \div g>>

\* Truth of an optional rate: false for None and for 0.
TruthyRate(x) == x # None /\ x[1][1] # 0

RECURSIVE Product(_)
Product(shape) == IF shape = <<>> THEN 1 ELSE Head(shape) * Product(Tail(shape))

\* numpy.ndarray.size
Size(a) == Product(a.shape)

\* ------------------------------------------------------------ input domains
Dtypes == {"float64", "int64"}

\* A data array with n entries on the time axis; b tells the contents apart.
\* kind 1 is shape (n,), kind 2 is shape (n, 1).
DataArray(dtype, n, kind, b) ==
    [dtype |-> dtype,
     shape |-> IF kind = 1 THEN <<n>> ELSE <<n, 1>>,
     vals  |-> [i \in 1..n |-> b + i]]

\* A timevector of n regularly spaced timestamps beginning at start.
TimeVector(dtype, n, kind, start) ==
    [dtype |-> dtype,
     shape |-> IF kind = 1 THEN <<n>> ELSE <<n, 1>>,
     vals  |-> [i \in 1..n |-> start + (i - 1)]]

ModalityData(data, sampling_rate, timevector) ==
    [data |-> data, sampling_rate |-> sampling_rate, timevector |-> timevector]

\* ModalityData handed to a constructor as parsed_data.
ParsedInputs ==
    {ModalityData(DataArray("float64", n, 1, 0), Hz(100),
                  TimeVector("float64", n, 1, s)) : n \in 1..MaxLen, s \in {0, 1}}

\* ModalityData a loader (read_splines, an external collaborator) can return.
LoaderResults ==
    {ModalityData(DataArray("float64", n, 1, 10), Hz(50),
                  TimeVector("float64", n, 1, s)) : n \in 1..MaxLen, s \in {0, 2}}

\* Arrays assigned through the data setter.
DataInputs ==
    {DataArray(d, n, k, 20) : d \in Dtypes, n \in 1..MaxLen, k \in {1, 2}}

\* Arrays assigned through the timevector setter.
TimeVectorInputs ==
    {TimeVector(d, n, k, s) : d \in Dtypes, n \in 1..MaxLen, k \in {1, 2}, s \in {0, 3}}

\* Values assigned through the time_offset setter (Python floats).
TimeOffsetInputs == {0, 5}

\* ModalityMetaData: None, or an object with its parent_name.
MetaDataInputs == {None, Some([parent_name |-> Some("")]),
                   Some([parent_name |-> Some("Splines")])}

\* ------------------------------------------------------ results of a call
Res(o, ret, err, calls) == [o |-> o, ret |-> ret, err |-> err, calls |-> calls]

\* ------------------------------------------------------------- Modality
\* Modality.__init__
Modality__init__(cls, parsed_data, metadata, data_path, load_path, meta_path, time_offset) ==
    LET timevector == IF parsed_data # None THEN Some(parsed_data[1].timevector)
                      ELSE None
    IN  [cls |-> cls,
         data_path |-> data_path,
         _meta_path |-> meta_path,
         load_path |-> load_path,
         metadata |-> metadata,
         _data |-> IF parsed_data # None THEN Some(parsed_data[1].data) ELSE None,
         _sampling_rate |-> IF parsed_data # None
                            THEN Some(parsed_data[1].sampling_rate) ELSE None,
         _timevector |-> timevector,
         _time_offset |-> IF timevector = None THEN time_offset
                          ELSE Some(timevector[1].vals[1]),
         _excluded |-> FALSE,
         _time_precision |-> None]

\* Splines.__init__: passes everything on to Modality.__init__.
Splines__init__(parsed_data, metadata, data_path, load_path, meta_path, time_offset) ==
    Modality__init__("Splines", parsed_data, metadata, data_path, load_path,
                     meta_path, time_offset)

\* SplineMetric.__init__: no data_path, and time_offset is not passed on.
SplineMetric__init__(parsed_data, metadata, load_path, meta_path, time_offset) ==
    Modality__init__("SplineMetric", parsed_data, metadata, FALSE, load_path,
                     meta_path, None)

\* --------------------------------------------------------------- naming
\* An attribute exists on an object when the object's class declares it.
HasAttr(obj, attr) == attr \in DOMAIN obj

\* The members of the metric enums, by their values.
SplineDiffsEnum == {"apbpd", "mpbpd", "spline_l1", "spline_l2"}

SplineNNDsEnum == {"annd", "mnnd"}

SplineShapesEnum == {"curvature", "fourier", "modified_curvature", "procrustes"}

SplineMetricEnum == SplineDiffsEnum \cup SplineNNDsEnum \cup SplineShapesEnum

\* SplineMetricParameters: the five declared fields and no others.
SplineMetricParameters(parent_name, metric, timestep, release_data_memory, exclude_points) ==
    [parent_name |-> Some(parent_name),
     metric |-> metric,
     timestep |-> timestep,
     release_data_memory |-> release_data_memory,
     exclude_points |-> exclude_points]

\* Modality.name (Splines inherits it).
Modality_name(o) ==
    IF o.metadata # None /\ TruthyStr(o.metadata[1].parent_name)
    THEN [val |-> Some(o.cls \o " on " \o o.metadata[1].parent_name[1]),
          err |-> NoError]
    ELSE [val |-> Some(o.cls), err |-> NoError]

\* SplineMetric.generate_name. The name is built up to the parent, and then
\* params.is_downsampled is read: an attribute that the parameter classes do
\* not declare. Where it exists and is true, the ratio, an int, is added to a
\* str.
generate_name(cls, params) ==
    IF params = None
       \/ ~HasAttr(params[1], "metric")
       \/ ~HasAttr(params[1], "timestep")
       \/ ~HasAttr(params[1], "parent_name")
    THEN [val |-> None, err |-> "AttributeError"]
    ELSE LET p  == params[1]
             s1 == cls \o " " \o p.metric
             s2 == IF p.timestep # 1 /\ p.metric \notin SplineShapesEnum
                   THEN s1 \o " ts" \o ToString(p.timestep) ELSE s1
             s3 == IF TruthyStr(p.parent_name)
                   THEN s2 \o " on " \o p.parent_name[1] ELSE s2
         IN  IF ~HasAttr(p, "is_downsampled")
             THEN [val |-> None, err |-> "AttributeError"]
             ELSE IF p.is_downsampled
             THEN IF ~HasAttr(p, "downsampling_ratio")
                  THEN [val |-> None, err |-> "AttributeError"]
                  ELSE [val |-> None, err |-> "TypeError"]
             ELSE [val |-> Some(s3), err |-> NoError]

\* SplineMetric.name
SplineMetric_name(o) == generate_name("SplineMetric", o.metadata)

\* modality.name, dispatched on the concrete kind.
name(o) == IF o.cls = "SplineMetric" THEN SplineMetric_name(o) ELSE Modality_name(o)

\* Splines._read_data calls read_splines; the other kinds inherit the stub.
_read_data(o, file) ==
    IF o.cls = "Splines"
    THEN [val |-> Some(file), err |-> NoError, calls |-> <<"_read_data">>]
    ELSE [val |-> None, err |-> "NotImplementedError", calls |-> <<"_read_data">>]

\* Modality._load_data: the stub, overridden by neither kind.
_load_data(o, file) ==
    [val |-> None, err |-> "NotImplementedError", calls |-> <<"_load_data">>]

\* Modality._derive_data (the stub) raises NotImplementedError.
\* SplineMetric._derive_data first builds its message from self.name.
_derive_data(o, file) ==
    IF o.cls = "SplineMetric" /\ SplineMetric_name(o).err # NoError
    THEN [val |-> None, err |-> SplineMetric_name(o).err,
          calls |-> <<"_derive_data">>]
    ELSE [val |-> None, err |-> "NotImplementedError", calls |-> <<"_derive_data">>]

\* Mutant of _get_data: load_path is consulted before data_path.
_get_data_LoadFirst(o, file) ==
    IF o.load_path THEN _load_data(o, file)
    ELSE IF o.data_path THEN _read_data(o, file)
    ELSE IF o.metadata = None
         THEN [val |-> None, err |-> "AttributeError", calls |-> <<>>]
    ELSE IF TruthyStr(o.metadata[1].parent_name) THEN _derive_data(o, file)
    ELSE [val |-> None, err |-> "MissingDataError", calls |-> <<>>]

\* Modality._get_data
_get_data(o, file) ==
    IF o.data_path THEN _read_data(o, file)
    ELSE IF o.load_path THEN _load_data(o, file)
    ELSE IF o.metadata = None
         THEN [val |-> None, err |-> "AttributeError", calls |-> <<>>]
    ELSE IF TruthyStr(o.metadata[1].parent_name) THEN _derive_data(o, file)
    ELSE [val |-> None, err |-> "MissingDataError", calls |-> <<>>]

\* Modality._set_data
_set_data(o, data) ==
    [o EXCEPT !._data = Some(data.data),
              !._timevector = Some(data.timevector),
              !._sampling_rate = Some(data.sampling_rate)]

\* self._set_data(self._get_data()), as the getters call it.
Materialize(o, file) ==
    LET got == _get_data(o, file)
    IN  IF got.err # NoError
        THEN Res(o, None, got.err, got.calls)
        ELSE Res(_set_data(o, got.val[1]), None, NoError, got.calls)

\* Mutant of data: the getter materializes without looking at self._data.
data_AlwaysMaterialize(o, file) ==
    LET m == Materialize(o, file)
    IN  IF m.err # NoError THEN m ELSE Res(m.o, m.o._data, NoError, m.calls)

\* Modality.data (getter)
data(o, file) ==
    IF o._data = None
    THEN LET m == Materialize(o, file)
         IN  IF m.err # NoError THEN m ELSE Res(m.o, m.o._data, NoError, m.calls)
    ELSE Res(o, o._data, NoError, <<>>)

\* Modality.sampling_rate (getter)
sampling_rate(o, file) ==
    IF ~TruthyRate(o._sampling_rate)
    THEN LET m == Materialize(o, file)
         IN  IF m.err # NoError THEN m
             ELSE Res(m.o, m.o._sampling_rate, NoError, m.calls)
    ELSE Res(o, o._sampling_rate, NoError, <<>>)

\* Modality.time_offset (getter)
time_offset(o, file) ==
    IF ~TruthyNum(o._time_offset)
    THEN LET m == Materialize(o, file)
         IN  IF m.err # NoError THEN m
             ELSE Res(m.o, m.o._time_offset, NoError, m.calls)
    ELSE Res(o, o._time_offset, NoError, <<>>)

\* Modality.timevector (getter)
timevector(o, file) ==
    IF o._timevector = None
    THEN LET m == Materialize(o, file)
         IN  IF m.err # NoError THEN m
             ELSE Res(m.o, m.o._timevector, NoError, m.calls)
    ELSE Res(o, o._timevector, NoError, <<>>)

\* numpy.diff of a one-dimensional array
Diff(vals) == [i \in 1..(Len(vals) - 1) |-> vals[i + 1] - vals[i]]

RECURSIVE Sum(_)
Sum(vals) == IF vals = <<>> THEN 0 ELSE Head(vals) + Sum(Tail(vals))

Abs(x) == IF x < 0 THEN -x ELSE x

Max(S) == CHOOSE x \in S : \A y \in S : y <= x

\* not self._time_precision: false for None and for a precision of 0.
TruthyPrecision(x) == TruthyRate(x)

\* Modality.time_precision (getter). The precision is the exact fraction
\* max |d - average| over the differences d of the timevector. A timevector
\* of one sample has no differences, and numpy.max of an empty array raises
\* ValueError. A computation is listed in calls as "np.diff".
time_precision(o, file) ==
    IF TruthyPrecision(o._time_precision)
    THEN Res(o, o._time_precision, NoError, <<>>)
    ELSE The({IF got.err # NoError THEN got
              ELSE The({IF differences = <<>>
                        THEN Res(got.o, None, "ValueError",
                                 got.calls \o <<"np.diff">>)
                        ELSE The({Res([got.o EXCEPT !._time_precision = Some(precision)],
                                      Some(precision), NoError,
                                      got.calls \o <<"np.diff">>)
                                  : precision \in
                                      {RateDiv(Hz(Max({Abs(Len(differences) * differences[i]
                                                           - Sum(differences))
                                                       : i \in DOMAIN differences})),
                                               Len(differences))}})
                        : differences \in
                            {IF Len(got.o._timevector[1].shape) = 1
                             THEN Diff(got.o._timevector[1].vals) ELSE <<>>}})
              : got \in {timevector(o, file)}})

\* Mutant of SameLayout: only the dtype is compared.
SameLayout_DtypeOnly(a, b) == a.dtype = b.dtype

\* Mutant of SameLayout: the dtype comparison is missing.
SameLayout_NoDtype(a, b) == Size(a) = Size(b) /\ a.shape = b.shape

\* The three comparisons of the setters: dtype, size and shape.
SameLayout(a, b) == a.dtype = b.dtype /\ Size(a) = Size(b) /\ a.shape = b.shape

\* Modality._data_setter (Modality.data setter and Splines.data setter).
\* new is None or Some(array).
_data_setter(o, new, file) ==
    LET got == data(o, file)
    IN  IF got.err # NoError THEN got
        ELSE IF got.ret # None /\ new # None
             THEN IF SameLayout(new[1], got.o._data[1])
                  THEN Res([got.o EXCEPT !._data = new], None, NoError, got.calls)
                  ELSE Res(got.o, None, "OverWriteError", got.calls)
             ELSE Res([got.o EXCEPT !._data = new], None, NoError, got.calls)

\* timevector + (time_offset - timevector[0]); a Python float makes the
\* result float64, a numpy scalar of the array's own dtype keeps the dtype.
Shifted(tv, t, is_python_float) ==
    [tv EXCEPT !.vals = [i \in DOMAIN tv.vals |-> tv.vals[i] + (t - tv.vals[1])],
               !.dtype = IF is_python_float THEN "float64" ELSE tv.dtype]

\* Modality.time_offset (setter). `if self.timevector:` takes the truth value
\* of a numpy array: ValueError for more than one element, the element's own
\* truth value for exactly one, False for none.
time_offset_setter(o, t, is_python_float, file) ==
    LET o1 == [o EXCEPT !._time_offset = Some(t)]
        got == timevector(o1, file)
    IN  IF got.err # NoError THEN got
        ELSE LET tv == got.o._timevector[1]
             IN  IF Size(tv) > 1
                 THEN Res(got.o, None, "ValueError", got.calls)
                 ELSE IF Size(tv) = 1 /\ tv.vals[1] # 0
                 THEN Res([got.o EXCEPT !._timevector =
                                  Some(Shifted(tv, t, is_python_float))],
                          None, NoError, got.calls)
                 ELSE Res(got.o, None, NoError, got.calls)

\* Mutant of timevector_setter: the test for a None value comes first.
timevector_setter_NoneFirst(o, new, file) ==
    IF new = None
    THEN Res(o, None, "NotImplementedError", <<>>)
    ELSE IF o._timevector = None
    THEN Res(o, None, "OverWriteError", <<>>)
    ELSE IF LET a == new[1]
                b == o._timevector[1]
            IN  a.dtype = b.dtype /\ Size(a) = Size(b) /\ a.shape = b.shape
    THEN time_offset_setter([o EXCEPT !._timevector = new],
                            new[1].vals[1], FALSE, file)
    ELSE Res(o, None, "OverWriteError", <<>>)

\* Modality.timevector (setter). new is None or Some(array).
timevector_setter(o, new, file) ==
    IF o._timevector = None
    THEN Res(o, None, "OverWriteError", <<>>)
    ELSE IF new = None
    THEN Res(o, None, "NotImplementedError", <<>>)
    ELSE IF SameLayout(new[1], o._timevector[1])
    THEN time_offset_setter([o EXCEPT !._timevector = new],
                            new[1].vals[1], FALSE, file)
    ELSE Res(o, None, "OverWriteError", <<>>)

\* Mutant of excluded_setter: excluding a Modality excludes its Recording.
excluded_setter_Propagates(o, rec, is_excluded) ==
    [o         |-> [o EXCEPT !._excluded = is_excluded],
     recording |-> IF is_excluded THEN [rec EXCEPT !.excluded = TRUE] ELSE rec]

\* Modality.excluded setter: the flag is stored; the Recording rec that owns
\* the Modality is not touched.
excluded_setter(o, rec, is_excluded) ==
    [o         |-> [o EXCEPT !._excluded = is_excluded],
     recording |-> rec]

\* Modality.excluded getter
excluded(o) == o._excluded

\* -------------------------------------------------------------- satgrid
\* Mutant of SatInterval__init__: the neighbours are not linked back to the
\* new SatInterval.
SatInterval__init__NoBackLink(objs, begin, text, prev, next_interval) ==
    Append(objs, [begin |-> begin, text |-> text, prev |-> prev,
                  next_interval |-> next_interval])

\* SatInterval.__init__(begin, text, prev, next_interval). objs are the
\* SatIntervals made so far, each known by its place in objs; the new one is
\* put last, and the neighbours it is given are linked back to it.
SatInterval__init__(objs, begin, text, prev, next_interval) ==
    LET self == Len(objs) + 1
        linked == [i \in DOMAIN objs |->
                     IF prev # None /\ i = prev[1] /\ next_interval # None
                        /\ i = next_interval[1]
                     THEN [objs[i] EXCEPT !.next_interval = Some(self),
                                          !.prev = Some(self)]
                     ELSE IF prev # None /\ i = prev[1]
                     THEN [objs[i] EXCEPT !.next_interval = Some(self)]
                     ELSE IF next_interval # None /\ i = next_interval[1]
                     THEN [objs[i] EXCEPT !.prev = Some(self)]
                     ELSE objs[i]]
    IN  Append(linked, [begin |-> begin, text |-> text, prev |-> prev,
                        next_interval |-> next_interval])

\* SatInterval.from_textgrid_interval(interval, prev): xmin and text are
\* copied. A Point of a point tier has xpos and text and no xmin.
from_textgrid_interval(objs, interval, prev) ==
    IF ~HasAttr(interval, "xmin")
    THEN [objs |-> objs, err |-> "AttributeError"]
    ELSE [objs |-> SatInterval__init__(objs, interval.xmin, Some(interval.text),
                                       prev, None),
          err  |-> NoError]

\* SatInterval.end
SatInterval_end(objs, i) ==
    IF objs[i].next_interval # None
    THEN Some(objs[objs[i].next_interval[1]].begin) ELSE None

\* SatInterval.mid: (begin + next_interval.begin) / 2, as a fraction.
SatInterval_mid(objs, i) ==
    IF objs[i].next_interval # None
    THEN Some(RateDiv(Hz(objs[i].begin + objs[objs[i].next_interval[1]].begin), 2))
    ELSE None

\* The loop of SatTier.__init__ after its first k rounds: the SatIntervals
\* made, and the list self holds.
RECURSIVE SatTierLoop(_, _)
SatTierLoop(tier, k) ==
    IF k = 0 THEN [objs |-> <<>>, list |-> <<>>, err |-> NoError]
    ELSE The({IF before.err # NoError THEN before
              ELSE The({IF current.err # NoError
                        THEN [before EXCEPT !.err = current.err]
                        ELSE [objs |-> current.objs,
                              list |-> Append(before.list, Len(current.objs)),
                              err  |-> NoError]
                        : current \in {from_textgrid_interval(
                              before.objs, tier[k],
                              IF k = 1 THEN None ELSE Some(Len(before.objs)))}})
              : before \in {SatTierLoop(tier, k - 1)}})

\* SatTier.__init__(tier): one SatInterval for each interval and one more for
\* the final boundary; of an empty tier there is no last interval to take
\* xmax from, and a Point has no xmax.
SatTier__init__(tier) ==
    IF tier = <<>>
    THEN [objs |-> <<>>, list |-> <<>>, err |-> "AttributeError"]
    ELSE The({IF loop.err # NoError THEN loop
              ELSE [objs |-> SatInterval__init__(loop.objs, tier[Len(tier)].xmax,
                                                 None, Some(Len(loop.objs)), None),
                    list |-> Append(loop.list, Len(loop.objs) + 1),
                    err  |-> NoError]
              : loop \in {SatTierLoop(tier, Len(tier))}})

\* SatGrid.__init__(textgrid) after its first k tiers: a SatTier under each
\* tier name, in the order of the textgrid.
RECURSIVE SatGridLoop(_, _)
SatGridLoop(textgrid, k) ==
    IF k = 0 THEN [grid |-> <<>>, err |-> NoError]
    ELSE The({IF before.err # NoError THEN before
              ELSE The({IF sattier.err # NoError
                        THEN [before EXCEPT !.err = sattier.err]
                        ELSE [grid |-> Append(before.grid,
                                              <<textgrid[k][1], sattier>>),
                              err  |-> NoError]
                        : sattier \in {SatTier__init__(textgrid[k][2])}})
              : before \in {SatGridLoop(textgrid, k - 1)}})

SatGrid__init__(textgrid) == SatGridLoop(textgrid, Len(textgrid))

\* ------------------------------------------------- constructing a Recording
\* textgrids.TextGrid(): a TextGrid of no tiers. A TextGrid is the list of
\* its (tier name, tier) items.
TextGrid == [tiers |-> <<>>]

\* The metadata every Recording here is constructed with.
RecordingMetaData == [basename |-> "rec", path |-> "dir"]

\* Recording._read_textgrid. file is what the file system holds at
\* textgrid_path: None when there is no such file, Some(None) a file that
\* textgrids.TextGrid fails to read, Some(Some(t)) one it reads as t. A str
\* has no is_file.
_read_textgrid(textgrid_path, file) ==
    IF textgrid_path.type = "str"
    THEN [textgrid |-> None, err |-> "AttributeError"]
    ELSE IF file # None
    THEN IF file[1] # None
         THEN [textgrid |-> file[1], err |-> NoError]
         ELSE [textgrid |-> Some(TextGrid), err |-> NoError]
    ELSE [textgrid |-> Some(TextGrid), err |-> NoError]

\* Recording.__init__(meta_data, excluded, textgrid_path). An empty str is
\* falsy and replaced by the Path made of meta_data; a Path is truthy. The
\* modalities dict is the variable modalities, emptied by the caller.
Recording__init__(meta_data, is_excluded, textgrid_path, file) ==
    The({The({IF read.err # NoError THEN [o |-> None, err |-> read.err]
              ELSE The({IF satgrid.err # NoError
                        THEN [o |-> None, err |-> satgrid.err]
                        ELSE [o   |-> [excluded |-> is_excluded,
                                       meta_data |-> meta_data,
                                       textgrid_path |-> path,
                                       textgrid |-> read.textgrid,
                                       satgrid |-> satgrid.grid,
                                       annotations |-> <<>>],
                              err |-> NoError]
                        : satgrid \in {SatGrid__init__(read.textgrid[1].tiers)}})
              : read \in {_read_textgrid(path, file)}})
         : path \in {IF textgrid_path.type = "str" /\ textgrid_path.value = ""
                     THEN [type |-> "Path",
                           value |-> meta_data.path \o "/" \o meta_data.basename
                                     \o ".TextGrid"]
                     ELSE textgrid_path}})

\* Recording.exclude()
exclude(rec) == [rec EXCEPT !.excluded = TRUE]

\* ------------------------------------------------------------ Recording
\* name in self.modalities
Contains(dict, key) == \E i \in DOMAIN dict : dict[i][1] = key

\* self.modalities[name]
Lookup(dict, key) == dict[CHOOSE i \in DOMAIN dict : dict[i][1] = key][2]

\* Mutant of SetItem: the item is appended whether or not the key exists.
SetItem_Append(dict, key, value) == Append(dict, <<key, value>>)

\* self.modalities[name] = modality
SetItem(dict, key, value) ==
    IF Contains(dict, key)
    THEN [i \in DOMAIN dict |-> IF dict[i][1] = key THEN <<key, value>> ELSE dict[i]]
    ELSE Append(dict, <<key, value>>)

\* Mutant of add_modality: an existing name is overwritten without the check.
add_modality_NoCheck(dict, id, o, replace) ==
    LET n == name(o)
    IN  IF n.err # NoError THEN [dict |-> dict, err |-> n.err]
        ELSE [dict |-> SetItem(dict, n.val[1], id), err |-> NoError]

\* Mutant of add_modality: a replacement drops every other entry.
add_modality_ReplaceClears(dict, id, o, replace) ==
    LET n == name(o)
    IN  IF n.err # NoError THEN [dict |-> dict, err |-> n.err]
        ELSE IF Contains(dict, n.val[1]) /\ ~replace
             THEN [dict |-> dict, err |-> "ModalityError"]
        ELSE IF replace
             THEN [dict |-> <<<<n.val[1], id>>>>, err |-> NoError]
        ELSE [dict |-> SetItem(dict, n.val[1], id), err |-> NoError]

\* Recording.add_modality; id is the instance, o its state.
add_modality(dict, id, o, replace) ==
    LET n == name(o)
    IN  IF n.err # NoError THEN [dict |-> dict, err |-> n.err]
        ELSE IF Contains(dict, n.val[1]) /\ ~replace
             THEN [dict |-> dict, err |-> "ModalityError"]
        ELSE IF replace
             THEN [dict |-> SetItem(dict, n.val[1], id), err |-> NoError]
        ELSE [dict |-> SetItem(dict, n.val[1], id), err |-> NoError]

\* ------------------------------------------------ names and parameters
\* product_dict (satkit.helpers): one parameter object for every combination
\* of the listed values, the metrics outermost.
product_dict(parent_name, metric, timestep, exclude_points, release_data_memory) ==
    [k \in 1..(Len(metric) * Len(timestep)) |->
        SplineMetricParameters(parent_name,
                               metric[((k - 1) \div Len(timestep)) + 1],
                               timestep[((k - 1) % Len(timestep)) + 1],
                               release_data_memory, exclude_points)]

\* The comprehension {generate_name(params): params for params in ...}, over
\* the first k parameter objects.
RECURSIVE NamesAndMeta(_, _)
NamesAndMeta(spline_metric_params, k) ==
    IF k = 0 THEN [val |-> Some(<<>>), err |-> NoError]
    ELSE LET sofar == NamesAndMeta(spline_metric_params, k - 1)
             n     == generate_name("SplineMetric", Some(spline_metric_params[k]))
         IN  IF sofar.err # NoError THEN sofar
             ELSE IF n.err # NoError THEN [val |-> None, err |-> n.err]
             ELSE [val |-> Some(SetItem(sofar.val[1], n.val[1],
                                        spline_metric_params[k])),
                   err |-> NoError]

\* SplineMetric.get_names_and_meta. It begins with modality.__name__, an
\* attribute of classes that a Modality instance does not have.
get_names_and_meta(modality, metrics, timesteps, exclude_points, release_data_memory) ==
    IF ~HasAttr(modality, "__name__")
    THEN [val |-> None, err |-> "AttributeError"]
    ELSE LET ms == IF metrics = None \/ metrics[1] = <<>>
                   THEN <<"mpbpd">> ELSE metrics[1]
             ts == IF timesteps = None \/ timesteps[1] = <<>>
                   THEN <<1>> ELSE timesteps[1]
             spline_metric_params ==
                 product_dict(modality.__name__, ms, ts, exclude_points,
                              release_data_memory)
         IN  NamesAndMeta(spline_metric_params, Len(spline_metric_params))

\* ---------------------------------------------------------- downsampling
\* a[::step] along the first axis: the elements at 0, step, 2*step, ...
Slice(a, step) ==
    LET n == a.shape[1]
        k == (n + step - 1) \div step
    IN  [dtype |-> a.dtype,
         shape |-> [a.shape EXCEPT ![1] = k],
         vals  |-> [i \in 1..k |-> a.vals[(i - 1) * step + 1]]]

\* Modality.meta_path (getter): without a stored path a path is composed from
\* self.name and dropped; the stored value is returned either way.
meta_path(o) ==
    IF ~o._meta_path /\ name(o).err # NoError
    THEN Res(o, None, name(o).err, <<>>)
    ELSE Res(o, Some(o._meta_path), NoError, <<>>)

\* modality.__class__(recording, parsed_data=..., metadata=..., meta_path=...,
\* load_path=..., time_offset=...): the constructor of the same kind.
__class__(cls, parsed_data, metadata, a_meta_path, load_path, a_time_offset) ==
    IF cls = "Splines"
    THEN Splines__init__(parsed_data, metadata, FALSE, load_path, a_meta_path,
                         a_time_offset)
    ELSE SplineMetric__init__(parsed_data, metadata, load_path, a_meta_path,
                              a_time_offset)

\* downsample_modality(modality, downsampling_ratio, metadata). The property
\* reads are made in the order of the code: data, timevector, sampling_rate
\* and, for the constructor call, meta_path and time_offset. The result holds
\* the modality as the reads left it (o), the new Modality (ret) and the
\* loader routines that ran (calls).
downsample_modality(modality, downsampling_ratio, metadata, file) ==
    The({
      IF d.err # NoError THEN Res(d.o, None, d.err, d.calls) ELSE
      The({
        IF tv.err # NoError THEN Res(tv.o, None, tv.err, d.calls \o tv.calls) ELSE
        The({
          IF sr.err # NoError
          THEN Res(sr.o, None, sr.err, d.calls \o tv.calls \o sr.calls) ELSE
          The({
            IF mp.err # NoError
            THEN Res(mp.o, None, mp.err, d.calls \o tv.calls \o sr.calls) ELSE
            The({
              IF t.err # NoError
              THEN Res(t.o, None, t.err,
                       d.calls \o tv.calls \o sr.calls \o t.calls)
              ELSE Res(t.o,
                       Some(__class__(
                           modality.cls,
                           Some(ModalityData(
                               Slice(d.ret[1], downsampling_ratio),
                               RateDiv(sr.ret[1], downsampling_ratio),
                               Slice(tv.ret[1], downsampling_ratio))),
                           metadata, mp.ret[1], modality.load_path, t.ret)),
                       NoError, d.calls \o tv.calls \o sr.calls \o t.calls)
              : t \in {time_offset(mp.o, file)}})
            : mp \in {meta_path(sr.o)}})
          : sr \in {sampling_rate(tv.o, file)}})
        : tv \in {timevector(d.o, file)}})
      : d \in {data(modality, file)}})

\* pattern in key, for two strings.
IsSubstring(pattern, key) ==
    \/ pattern = ""
    \/ \E i \in 1..(Len(key) - Len(pattern) + 1) :
          SubSeq(key, i, i + Len(pattern) - 1) = pattern

\* recording[key]: Recording defines no __getitem__, so subscripting a
\* Recording raises TypeError.
Recording__getitem__(dict, key) == [val |-> None, err |-> "TypeError"]

\* key in recording: Recording defines none of __contains__, __iter__ and
\* __getitem__, so the membership test raises TypeError.
Recording__contains__(dict, key) == [val |-> None, err |-> "TypeError"]

\* for key in recording: Recording defines neither __iter__ nor __getitem__
\* (nor __contains__), so iterating over a Recording raises TypeError.
Recording__iter__(dict) == [val |-> None, err |-> "TypeError"]

\* downsample_metrics(recording, modality_pattern, downsampling_ratios,
\* match_timestep); dict is recording.modalities, objects the instances. The
\* first statement iterates over the recording. Past it, the Modalities whose
\* name holds the pattern are filtered by metadata.timestep, and for the
\* first one left metadata.is_downsampled is assigned on a copy of its
\* metadata, a field that the metadata classes do not declare.
downsample_metrics(dict, objects, modality_pattern, downsampling_ratios, match_timestep) ==
    LET keys == Recording__iter__(dict)
    IN  IF keys.err # NoError THEN [dict |-> dict, err |-> keys.err]
        ELSE LET selected ==
                     {objects[dict[i][2]][1] :
                        i \in {j \in DOMAIN dict :
                                 IsSubstring(modality_pattern, dict[j][1])}}
                 matched ==
                     {m \in selected :
                        \E k \in DOMAIN downsampling_ratios :
                           downsampling_ratios[k] = m.metadata[1].timestep}
             IN  IF ~match_timestep
                 THEN [dict |-> dict, err |-> "NotImplementedError"]
                 ELSE IF \E m \in selected :
                            m.metadata = None \/ ~HasAttr(m.metadata[1], "timestep")
                 THEN [dict |-> dict, err |-> "AttributeError"]
                 ELSE IF matched # {}
                 THEN [dict |-> dict, err |-> "ValueError"]
                 ELSE [dict |-> dict, err |-> NoError]

\* ------------------------------------------------------------- the calls
\* A Recording constructed with the default arguments where there is no
\* TextGrid file.
NewRecording ==
    Recording__init__(RecordingMetaData, FALSE, [type |-> "str", value |-> ""], None).o

Ids == 1..MaxMods

Live == {id \in Ids : heap[id] # None}

Call(op, id, arg, pre, r) ==
    [op |-> op, id |-> id, arg |-> arg, pre |-> pre, premap |-> modalities,
     ret |-> r.ret, err |-> r.err, calls |-> r.calls]

NoCall ==
    [op |-> "none", id |-> 0, arg |-> None, pre |-> None, premap |-> <<>>,
     ret |-> None, err |-> NoError, calls |-> <<>>]

\* The metadata of a SplineMetric: None, or SplineMetricParameters with the
\* default metric and timestep and with or without a parent's name.
SplineMetricMetaDataInputs ==
    {None,
     Some(SplineMetricParameters("", "mpbpd", 1, FALSE, None)),
     Some(SplineMetricParameters("Splines", "mpbpd", 1, FALSE, None))}

\* Instances a caller can construct, with every combination of arguments.
Constructed ==
    {Splines__init__(p, m, dp, lp, FALSE, t) :
        p \in {None} \cup {Some(d) : d \in ParsedInputs}, m \in MetaDataInputs,
        dp \in BOOLEAN, lp \in BOOLEAN, t \in {None, Some(0), Some(1)}}
    \cup
    {SplineMetric__init__(p, m, lp, FALSE, t) :
        p \in {None} \cup {Some(d) : d \in ParsedInputs},
        m \in SplineMetricMetaDataInputs,
        lp \in BOOLEAN, t \in {None, Some(0), Some(1)}}

\* Instances constructed for a Recording: one parsed_data, no time_offset.
ConstructedForRecording ==
    {Splines__init__(p, m, dp, FALSE, FALSE, None) :
        p \in {None, Some(ModalityData(DataArray("float64", 1, 1, 0), Hz(100),
                                       TimeVector("float64", 1, 1, 0)))},
        m \in MetaDataInputs, dp \in BOOLEAN}
    \cup
    {SplineMetric__init__(p, m, FALSE, FALSE, None) :
        p \in {None, Some(ModalityData(DataArray("float64", 1, 1, 0), Hz(100),
                                       TimeVector("float64", 1, 1, 0)))},
        m \in SplineMetricMetaDataInputs}

\* A new instance is constructed.
Construct(id) ==
    /\ heap[id] = None
    /\ \E o \in ConstructedForRecording :
          /\ heap' = [heap EXCEPT ![id] = Some(o)]
          /\ last' = Call("__init__", id, None, None, Res(o, None, NoError, <<>>))
    /\ UNCHANGED <<modalities, recording>>

\* recording.add_modality(modality, replace)
AddModality(id, replace) ==
    /\ id \in Live
    /\ LET r == add_modality(modalities, id, heap[id][1], replace)
       IN  /\ modalities' = r.dict
           /\ last' = Call("add_modality", id, Some(replace), heap[id],
                           Res(heap[id][1], None, r.err, <<>>))
    /\ UNCHANGED <<heap, recording>>

\* What read_splines can return for o's data_path. Only Splines with a
\* data_path ever reaches read_splines; for every other instance there is no
\* file to read and one value stands for it.
FileContents(o) ==
    IF o.cls = "Splines" /\ o.data_path THEN LoaderResults
    ELSE {CHOOSE file \in LoaderResults : TRUE}

\* A call of a Modality method on instance id; r is its result.
Apply(op, id, arg, r) ==
    /\ heap' = [heap EXCEPT ![id] = Some(r.o)]
    /\ last' = Call(op, id, arg, heap[id], r)
    /\ UNCHANGED <<modalities, recording>>

GetData(id) ==
    /\ id \in Live
    /\ \E file \in FileContents(heap[id][1]) :
          Apply("data", id, None, data(heap[id][1], file))

GetTimevector(id) ==
    /\ id \in Live
    /\ \E file \in FileContents(heap[id][1]) :
          Apply("timevector", id, None, timevector(heap[id][1], file))

GetSamplingRate(id) ==
    /\ id \in Live
    /\ \E file \in FileContents(heap[id][1]) :
          Apply("sampling_rate", id, None, sampling_rate(heap[id][1], file))

GetTimeOffset(id) ==
    /\ id \in Live
    /\ \E file \in FileContents(heap[id][1]) :
          Apply("time_offset", id, None, time_offset(heap[id][1], file))

\* modality.data = new
SetData(id) ==
    /\ id \in Live
    /\ \E file \in FileContents(heap[id][1]),
          new \in {None} \cup {Some(a) : a \in DataInputs} :
          Apply("data=", id, new, _data_setter(heap[id][1], new, file))

\* modality.timevector = new
SetTimevector(id) ==
    /\ id \in Live
    /\ \E file \in FileContents(heap[id][1]),
          new \in {None} \cup {Some(a) : a \in TimeVectorInputs} :
          Apply("timevector=", id, new, timevector_setter(heap[id][1], new, file))

\* modality.time_offset = t
SetTimeOffset(id) ==
    /\ id \in Live
    /\ \E file \in FileContents(heap[id][1]), t \in TimeOffsetInputs :
          Apply("time_offset=", id, Some(t),
                time_offset_setter(heap[id][1], t, TRUE, file))

\* ------------------------------------------------ the naming functions
\* Parameter objects a caller can construct.
SplineMetricParametersInputs ==
    {SplineMetricParameters(pn, m, ts, rdm, ep) :
        pn \in {"", "Splines"}, m \in SplineMetricEnum, ts \in 1..MaxTimestep,
        rdm \in BOOLEAN, ep \in {None, Some(<<1, 2>>)}}

\* The outcome of the call before this one, when it was of the same function.
Before(op) ==
    IF last.op = op
    THEN Some([arg |-> last.arg, ret |-> last.ret, err |-> last.err,
               premap |-> last.premap])
    ELSE None

\* SplineMetric.generate_name(params)
GenerateName ==
    /\ \E p \in SplineMetricParametersInputs :
          LET r == generate_name("SplineMetric", Some(p))
          IN  last' = Call("generate_name", 0, Some(p), Before("generate_name"),
                           Res(None, r.val, r.err, <<>>))
    /\ UNCHANGED <<heap, modalities, recording>>

\* The lists of metrics and of timesteps a caller passes.
MetricsInputs ==
    {None, Some(<<"mpbpd">>), Some(<<"mpbpd", "annd">>),
     Some(<<"annd", "curvature">>)}

TimestepsInputs == {None} \cup {Some([i \in 1..n |-> i]) : n \in 1..MaxTimestep}

\* The parent Modality instances a caller passes: those holding data.
ParentInputs ==
    {o \in ConstructedForRecording : o._data # None /\ o.metadata # None}

\* SplineMetric.get_names_and_meta(modality, metrics, timesteps, ...)
GetNamesAndMeta ==
    /\ \E modality \in ParentInputs, metrics \in MetricsInputs,
          timesteps \in TimestepsInputs, ep \in {None, Some(<<1, 2>>)},
          rdm \in BOOLEAN :
          LET r == get_names_and_meta(modality, metrics, timesteps, ep, rdm)
          IN  last' = Call("get_names_and_meta", 0,
                           Some([modality |-> modality, metrics |-> metrics,
                                 timesteps |-> timesteps, exclude_points |-> ep,
                                 release_data_memory |-> rdm]),
                           None, Res(None, r.val, r.err, <<>>))
    /\ UNCHANGED <<heap, modalities, recording>>

\* --------------------------------------------------- downsampling calls
\* Ten samples at 100 Hz that begin at 0.0; the timestamps count 10 ms steps.
SensorData ==
    ModalityData(DataArray("float64", 10, 1, 0), Hz(100),
                 TimeVector("float64", 10, 1, 0))

\* Instances a caller hands to downsample_modality.
DownsampleSources ==
    {Splines__init__(p, m, dp, lp, mp, t) :
        p \in {None} \cup {Some(d) : d \in ParsedInputs \cup {SensorData}},
        m \in MetaDataInputs, dp \in BOOLEAN, lp \in BOOLEAN, mp \in BOOLEAN,
        t \in {None, Some(1)}}
    \cup
    {SplineMetric__init__(p, m, lp, mp, None) :
        p \in {None} \cup {Some(d) : d \in ParsedInputs \cup {SensorData}},
        m \in SplineMetricMetaDataInputs, lp \in BOOLEAN, mp \in BOOLEAN}

\* The metadata given to the downsampled Modality of a kind.
DownsampleMetaData(cls) ==
    IF cls = "Splines" THEN MetaDataInputs \ {None}
    ELSE SplineMetricMetaDataInputs \ {None}

\* downsample_modality(modality, ratio, metadata); the new Modality gets the
\* free place new.
DownsampleModality(id, new) ==
    /\ id \in Live
    /\ heap[new] = None
    /\ \E file \in FileContents(heap[id][1]), ratio \in 1..MaxRatio,
          metadata \in DownsampleMetaData(heap[id][1].cls) :
          LET r == downsample_modality(heap[id][1], ratio, metadata, file)
          IN  /\ heap' = [heap EXCEPT ![id] = Some(r.o), ![new] = r.ret]
              /\ last' = Call("downsample_modality", id,
                              Some([ratio |-> ratio, metadata |-> metadata,
                                    new |-> new]),
                              heap[id], r)
    /\ UNCHANGED <<modalities, recording>>

\* ----------------------------------------------- downsampling a Recording
\* The patterns and the ratios a caller passes.
PatternInputs == {"Splines", "SplineMetric"}

RatiosInputs == {[i \in 1..n |-> i] : n \in 1..MaxRatio}

\* The outcome of the call before this one, when it was the same call with
\* the same arguments.
Repeated(op, arg) ==
    IF last.op = op /\ last.arg = arg
    THEN Some([err |-> last.err, premap |-> last.premap])
    ELSE None

\* downsample_metrics(recording, modality_pattern, downsampling_ratios,
\* match_timestep)
DownsampleMetrics ==
    \E modality_pattern \in PatternInputs, downsampling_ratios \in RatiosInputs,
       match_timestep \in BOOLEAN :
       LET arg == Some([modality_pattern |-> modality_pattern,
                        downsampling_ratios |-> downsampling_ratios,
                        match_timestep |-> match_timestep])
           r   == downsample_metrics(modalities, heap, modality_pattern,
                                     downsampling_ratios, match_timestep)
       IN  /\ modalities' = r.dict
           /\ last' = Call("downsample_metrics", 0, arg,
                           Some([repeated |-> Repeated("downsample_metrics", arg),
                                 heap |-> heap]),
                           Res(None, None, r.err, <<>>))
           /\ UNCHANGED <<heap, recording>>

\* ------------------------------------------- mapping access to a Recording
\* The names a caller looks up.
NameInputs == {"Splines", "Splines on Splines", "SplineMetric mpbpd on Splines"}

\* recording[key]
GetItem ==
    /\ \E key \in NameInputs :
          LET r == Recording__getitem__(modalities, key)
          IN  last' = Call("__getitem__", 0, Some(key), None,
                           Res(None, r.val, r.err, <<>>))
    /\ UNCHANGED <<heap, modalities, recording>>

\* key in recording
ContainsName ==
    /\ \E key \in NameInputs :
          LET r == Recording__contains__(modalities, key)
          IN  last' = Call("__contains__", 0, Some(key), None,
                           Res(None, r.val, r.err, <<>>))
    /\ UNCHANGED <<heap, modalities, recording>>

\* for key in recording
Iterate ==
    /\ LET r == Recording__iter__(modalities)
       IN  last' = Call("__iter__", 0, None, None, Res(None, r.val, r.err, <<>>))
    /\ UNCHANGED <<heap, modalities, recording>>

\* ----------------------------------------------- Recordings and SatGrids
\* The boundaries of a tier of n intervals: strictly increasing times.
Boundaries(n) ==
    {b \in [1..(n + 1) -> 0..MaxTime] : \A i \in 1..n : b[i] < b[i + 1]}

Texts == {"", "a"}

\* The interval tiers a TextGrid file can hold: from none to MaxIntervals
\* intervals, each ending where the next begins.
TierInputs ==
    UNION {{[i \in 1..n |-> [xmin |-> b[i], xmax |-> b[i + 1], text |-> t[i]]] :
               b \in Boundaries(n), t \in [1..n -> Texts]} : n \in 0..MaxIntervals}

\* A point tier of one Point.
PointTier == <<[xpos |-> 1, text |-> "a"]>>

\* What textgrids.TextGrid can read from a file: no tier, or one tier.
TextGridInputs ==
    {TextGrid}
    \cup {[tiers |-> <<<<"segment", tier>>>>] :
              tier \in {t \in TierInputs : Len(t) <= 1} \cup {PointTier}}

\* What the file system holds at the path of the TextGrid.
FileInputs == {None, Some(None)} \cup {Some(Some(t)) : t \in TextGridInputs}

\* The textgrid_path arguments: the default, a str and a Path.
PathInputs ==
    {[type |-> "str", value |-> ""],
     [type |-> "str", value |-> "dir/rec.TextGrid"],
     [type |-> "Path", value |-> "dir/rec.TextGrid"]}

\* Recording(meta_data, excluded, textgrid_path): the Recording is replaced
\* by a new one when the constructor returns.
ConstructRecording ==
    \E e \in BOOLEAN, path \in PathInputs, file \in FileInputs :
        LET r == Recording__init__(RecordingMetaData, e, path, file)
        IN  /\ recording' = IF r.err = NoError THEN r.o ELSE recording
            /\ modalities' = IF r.err = NoError THEN <<>> ELSE modalities
            /\ last' = Call("Recording", 0,
                            Some([excluded |-> e, textgrid_path |-> path,
                                  file |-> file]),
                            None, Res(None, None, r.err, <<>>))
            /\ UNCHANGED heap

\* recording.exclude()
Exclude ==
    /\ recording' = exclude(recording)
    /\ last' = Call("exclude", 0, None, Some([heap |-> heap, recording |-> recording]),
                    Res(None, None, NoError, <<>>))
    /\ UNCHANGED <<heap, modalities>>

\* SatTier.from_textgrid_tier(tier)
BuildSatTier ==
    \E tier \in TierInputs \cup {PointTier} :
        LET r == SatTier__init__(tier)
        IN  /\ last' = Call("SatTier", 0, Some(tier), None,
                            Res(None, Some([objs |-> r.objs, list |-> r.list]),
                                r.err, <<>>))
            /\ UNCHANGED <<heap, modalities, recording>>

\* modality.excluded = excluded
SetExcluded(id) ==
    /\ id \in Live
    /\ \E e \in BOOLEAN :
          LET r == excluded_setter(heap[id][1], recording, e)
          IN  /\ heap' = [heap EXCEPT ![id] = Some(r.o)]
              /\ recording' = r.recording
              /\ last' = Call("excluded=", id, Some(e),
                              Some([heap |-> heap, recording |-> recording]),
                              Res(r.o, None, NoError, <<>>))
    /\ UNCHANGED modalities

\* modality.excluded
GetExcluded(id) ==
    /\ id \in Live
    /\ last' = Call("excluded", id, None, heap[id],
                    Res(heap[id][1], Some(excluded(heap[id][1])), NoError, <<>>))
    /\ UNCHANGED <<heap, modalities, recording>>

\* ------------------------------------------------------ the time precision
\* Timevectors of MaxLen + 1 timestamps that begin at 0: regularly spaced,
\* or with the last step twice as long as the others.
PrecisionTimeVectors ==
    {[dtype |-> "float64", shape |-> <<MaxLen + 1>>,
      vals  |-> [i \in 1..(MaxLen + 1) |-> IF i = MaxLen + 1 THEN MaxLen + gap
                                           ELSE i - 1]] : gap \in {0, 1}}

\* Instances whose time precision is read: with parsed data of a regular or
\* an irregular timevector, or with a data file that is still to be read.
PrecisionSources ==
    {Splines__init__(Some(ModalityData(DataArray("float64", MaxLen + 1, 1, 0),
                                       Hz(100), tv)),
                     None, FALSE, FALSE, FALSE, None) : tv \in PrecisionTimeVectors}
    \cup
    {Splines__init__(p, None, dp, FALSE, FALSE, None) :
        p \in {None} \cup {Some(d) : d \in ParsedInputs}, dp \in BOOLEAN}

\* modality.time_precision
GetTimePrecision(id) ==
    /\ id \in Live
    /\ \E file \in FileContents(heap[id][1]) :
          Apply("time_precision", id, None, time_precision(heap[id][1], file))

\* modality.timevector = new, for the timevectors of MaxLen + 1 timestamps
SetLongTimevector(id) ==
    /\ id \in Live
    /\ \E file \in FileContents(heap[id][1]), new \in PrecisionTimeVectors :
          Apply("timevector=", id, Some(new),
                timevector_setter(heap[id][1], Some(new), file))

\* ------------------------------------------------------- specifications
\* A Recording after construction, and the instances made for it.
Init ==
    /\ heap = [id \in Ids |-> None]
    /\ modalities = <<>>
    /\ recording = NewRecording
    /\ last = NoCall

Next ==
    \E id \in Ids :
        \/ Construct(id)
        \/ AddModality(id, TRUE)
        \/ AddModality(id, FALSE)

Spec == Init /\ [][Next]_vars

\* One Modality, just constructed with any combination of arguments, and
\* every property access and assignment on it.
InitModality ==
    /\ \E o \in Constructed : heap = [id \in Ids |-> IF id = 1 THEN Some(o) ELSE None]
    /\ modalities = <<>>
    /\ recording = NewRecording
    /\ last = NoCall

NextModality ==
    \E id \in Ids :
        \/ GetData(id)
        \/ GetTimevector(id)
        \/ GetSamplingRate(id)
        \/ GetTimeOffset(id)
        \/ SetData(id)
        \/ SetTimevector(id)
        \/ SetTimeOffset(id)

SpecModality == InitModality /\ [][NextModality]_vars

\* The naming functions of SplineMetric, called with any parameters.
InitNaming ==
    /\ heap = [id \in Ids |-> None]
    /\ modalities = <<>>
    /\ recording = NewRecording
    /\ last = NoCall

NextNaming ==
    \/ GenerateName
    \/ GetNamesAndMeta

SpecNaming == InitNaming /\ [][NextNaming]_vars

\* One Modality handed to downsample_modality, before or after its data was
\* read, and the Modalities that come of it.
InitDownsample ==
    /\ \E o \in DownsampleSources :
          heap = [id \in Ids |-> IF id = 1 THEN Some(o) ELSE None]
    /\ modalities = <<>>
    /\ recording = NewRecording
    /\ last = NoCall

NextDownsample ==
    \E id \in Ids :
        \/ GetData(id)
        \/ \E new \in Ids : DownsampleModality(id, new)

SpecDownsample == InitDownsample /\ [][NextDownsample]_vars

\* A Recording, the instances made for it and added to it, and the
\* downsampling of its metrics.
InitMetrics ==
    /\ heap = [id \in Ids |-> None]
    /\ modalities = <<>>
    /\ recording = NewRecording
    /\ last = NoCall

NextMetrics ==
    \/ \E id \in Ids :
          \/ Construct(id)
          \/ AddModality(id, FALSE)
    \/ DownsampleMetrics

SpecMetrics == InitMetrics /\ [][NextMetrics]_vars

\* A Recording, the instances made for it and added to it, and the
\* mapping-style accesses to it.
InitAccess ==
    /\ heap = [id \in Ids |-> None]
    /\ modalities = <<>>
    /\ recording = NewRecording
    /\ last = NoCall

NextAccess ==
    \/ \E id \in Ids :
          \/ Construct(id)
          \/ AddModality(id, TRUE)
          \/ AddModality(id, FALSE)
    \/ GetItem
    \/ ContainsName
    \/ Iterate

SpecAccess == InitAccess /\ [][NextAccess]_vars

\* A Recording constructed from any arguments and TextGrid file.
InitRecording ==
    /\ heap = [id \in Ids |-> None]
    /\ modalities = <<>>
    /\ recording = NewRecording
    /\ last = NoCall

NextRecording ==
    \/ ConstructRecording
    \/ Exclude

SpecRecording == InitRecording /\ [][NextRecording]_vars

\* The SatTiers built of the tiers of a Recording's TextGrid.
InitSatGrid ==
    /\ heap = [id \in Ids |-> None]
    /\ modalities = <<>>
    /\ recording = NewRecording
    /\ last = NoCall

NextSatGrid ==
    \/ BuildSatTier
    \/ Exclude

SpecSatGrid == InitSatGrid /\ [][NextSatGrid]_vars

\* A Recording, excluded or not, the instances made for it and added to it,
\* and the excluding of each.
InitExcluded ==
    /\ heap = [id \in Ids |-> None]
    /\ modalities = <<>>
    /\ recording \in {NewRecording, exclude(NewRecording)}
    /\ last = NoCall

NextExcluded ==
    \/ \E id \in Ids :
          \/ Construct(id)
          \/ AddModality(id, FALSE)
          \/ SetExcluded(id)
          \/ GetExcluded(id)
    \/ Exclude

SpecExcluded == InitExcluded /\ [][NextExcluded]_vars

\* One Splines, constructed with or without parsed data and a data file,
\* the reading and the assignment of its array, the assignment of its
\* timevector, and its downsampling into a second Modality.
LengthSources ==
    {Splines__init__(p, Some([parent_name |-> Some("")]), dp, FALSE, FALSE, None) :
        p \in {None} \cup {Some(d) : d \in ParsedInputs}, dp \in BOOLEAN}

InitLength ==
    /\ \E o \in LengthSources :
          heap = [id \in Ids |-> IF id = 1 THEN Some(o) ELSE None]
    /\ modalities = <<>>
    /\ recording = NewRecording
    /\ last = NoCall

NextLength ==
    \/ GetData(1)
    \/ SetData(1)
    \/ SetTimevector(1)
    \/ DownsampleModality(1, 2)

SpecLength == InitLength /\ [][NextLength]_vars

\* One Modality, the reading of its time precision and the assignments that
\* change its timevector.
InitPrecision ==
    /\ \E o \in PrecisionSources :
          heap = [id \in Ids |-> IF id = 1 THEN Some(o) ELSE None]
    /\ modalities = <<>>
    /\ recording = NewRecording
    /\ last = NoCall

NextPrecision ==
    \E id \in Ids :
        \/ GetTimePrecision(id)
        \/ SetTimevector(id)
        \/ SetLongTimevector(id)
        \/ SetTimeOffset(id)

SpecPrecision == InitPrecision /\ [][NextPrecision]_vars

\* ---------------------------------------------------------------- claims
GetterOps == {"data", "timevector", "sampling_rate", "time_offset"}

\* The instance the last call was made on, before and after the call.
Pre == last.pre[1]
Post == heap[last.id][1]

\* The name under which the last add_modality call's modality goes.
AddedName == name(Pre).val[1]

NoDuplicateKeys(dict) ==
    \A i, j \in DOMAIN dict : dict[i][1] = dict[j][1] => i = j

\* C1: add_modality(m, replace=False) raises ModalityError whenever m.name is
\* already a key of the Recording, and then the mapping is exactly what it
\* was: same keys, same instances, same order.
C1_AddExistingRaises ==
    (/\ last.op = "add_modality"
     /\ last.arg = Some(FALSE)
     /\ name(Pre).err = NoError
     /\ Contains(last.premap, AddedName))
    => /\ last.err = "ModalityError"
       /\ modalities = last.premap

\* C1 witness: the call was refused while another instance holds the name,
\* and that other instance is still the one stored.
C1_Witness ==
    /\ last.op = "add_modality"
    /\ last.arg = Some(FALSE)
    /\ last.err = "ModalityError"
    /\ Contains(modalities, AddedName)
    /\ Lookup(modalities, AddedName) # last.id

\* C2: after a successful add_modality(m, replace) the mapping holds m under
\* m.name; an absent name is appended, a present name is overwritten in
\* place with every other item untouched; no key occurs twice; and the call
\* succeeds whenever the name is absent or replace is true.
C2_SuccessfulAddStores ==
    /\ NoDuplicateKeys(modalities)
    /\ (last.op = "add_modality" /\ name(Pre).err = NoError) =>
          /\ (~Contains(last.premap, AddedName) \/ last.arg = Some(TRUE))
                => last.err = NoError
          /\ last.err = NoError =>
                /\ Contains(modalities, AddedName)
                /\ \A i \in DOMAIN modalities :
                      modalities[i][1] = AddedName => modalities[i][2] = last.id
                /\ ~Contains(last.premap, AddedName) =>
                      modalities = Append(last.premap, <<AddedName, last.id>>)
                /\ Contains(last.premap, AddedName) =>
                      /\ Len(modalities) = Len(last.premap)
                      /\ \A i \in DOMAIN modalities :
                            last.premap[i][1] # AddedName =>
                               modalities[i] = last.premap[i]

\* C2 witness: a present name was overwritten by a different instance.
C2_Witness ==
    /\ last.op = "add_modality"
    /\ last.err = NoError
    /\ Contains(last.premap, AddedName)
    /\ Lookup(last.premap, AddedName) # last.id
    /\ Lookup(modalities, AddedName) = last.id

\* No data_path, no load_path and no parent name (metadata absent, or its
\* parent_name empty).
NoSource(o) ==
    /\ ~o.data_path
    /\ ~o.load_path
    /\ (o.metadata = None \/ ~TruthyStr(o.metadata[1].parent_name))

\* Nothing of a ModalityData is held: without a source this is so exactly
\* when the instance was constructed without parsed_data.
Unmaterialized(o) ==
    o._data = None /\ o._timevector = None /\ o._sampling_rate = None

\* C3 (as claimed): on a Modality without any source and constructed without
\* parsed data, every read of data, timevector, sampling_rate or time_offset
\* raises MissingDataError and leaves the Modality un-materialized.
C3_NoSourceRaisesMissingData ==
    (/\ last.op \in GetterOps
     /\ NoSource(Pre)
     /\ Unmaterialized(Pre))
    => /\ last.err = "MissingDataError"
       /\ Unmaterialized(Post)

\* The routine the priority order data_path, load_path, parent_name selects.
SelectedRoutine(o) ==
    IF o.data_path THEN "_read_data"
    ELSE IF o.load_path THEN "_load_data"
    ELSE "_derive_data"

HasSource(o) == ~NoSource(o)

\* C4: a materialization invokes exactly one loader routine, chosen by strict
\* priority: _read_data if data_path is set; else _load_data if load_path is
\* set; else _derive_data if parent_name is non-empty. No call invokes a
\* routine without a source, or more than one routine.
C4_SourcePriority ==
    last.op \notin {"none", "__init__", "add_modality"} =>
       /\ Len(last.calls) <= 1
       /\ last.calls # <<>> =>
             /\ HasSource(Pre)
             /\ last.calls = <<SelectedRoutine(Pre)>>
       /\ (last.op = "data" /\ Pre._data = None /\ HasSource(Pre)) =>
             last.calls = <<SelectedRoutine(Pre)>>

\* C4 witness: a non-resident Modality with a load_path and a parent name but
\* no data_path was read, and _load_data alone was invoked.
C4_Witness ==
    /\ last.op = "data"
    /\ Pre._data = None
    /\ ~Pre.data_path
    /\ Pre.load_path
    /\ Pre.metadata # None
    /\ TruthyStr(Pre.metadata[1].parent_name)
    /\ last.calls = <<"_load_data">>

\* The instances that constructing with parsed_data p yields.
ConstructedWith(p) ==
    {Splines__init__(Some(p), m, dp, lp, FALSE, t) :
        m \in MetaDataInputs, dp \in BOOLEAN, lp \in BOOLEAN,
        t \in {None, Some(0), Some(1)}}
    \cup
    {SplineMetric__init__(Some(p), m, lp, FALSE, t) :
        m \in SplineMetricMetaDataInputs, lp \in BOOLEAN,
        t \in {None, Some(0), Some(1)}}

\* C5: on a Modality as constructed with a ModalityData p, reading data,
\* timevector or sampling_rate returns p's value, raises nothing, invokes no
\* loader routine and changes nothing, whatever the paths and parent are.
C5_ParsedDataImmediatelyAvailable ==
    \A p \in ParsedInputs :
       (/\ last.op \in {"data", "timevector", "sampling_rate"}
        /\ Pre \in ConstructedWith(p))
       => /\ last.err = NoError
          /\ last.calls = <<>>
          /\ Post = Pre
          /\ last.op = "data" => last.ret = Some(p.data)
          /\ last.op = "timevector" => last.ret = Some(p.timevector)
          /\ last.op = "sampling_rate" => last.ret = Some(p.sampling_rate)

\* C5 witness: data was read from a Modality constructed with parsed data
\* that also has a data_path, a load_path and a parent name.
C5_Witness ==
    /\ last.op = "data"
    /\ \E p \in ParsedInputs : Pre \in ConstructedWith(p) /\ last.ret = Some(p.data)
    /\ Pre.data_path
    /\ Pre.load_path
    /\ Pre.metadata # None
    /\ TruthyStr(Pre.metadata[1].parent_name)

\* All of data, timevector and sampling_rate are held.
Materialized(o) ==
    o._data # None /\ o._timevector # None /\ o._sampling_rate # None

\* A working source: Splines with a data_path, which read_splines reads.
WorkingSource(o) == o.cls = "Splines" /\ o.data_path

\* data, timevector and sampling_rate are those a loader returned.
MaterializedFromSource(o) ==
    \E file \in LoaderResults :
        /\ o._data = Some(file.data)
        /\ o._timevector = Some(file.timevector)
        /\ o._sampling_rate = Some(file.sampling_rate)

\* C6 (as claimed): the first read of data, timevector, sampling_rate or
\* time_offset on a Modality with a working source performs one
\* materialization that populates all four fields; after it, while the array
\* stays resident, no read of any of the four invokes a loader routine.
C6_MaterializedOnceForAllFour ==
    (last.op \in GetterOps /\ WorkingSource(Pre)) =>
       /\ Unmaterialized(Pre) =>
             /\ last.err = NoError
             /\ Len(last.calls) = 1
             /\ Materialized(Post)
             /\ Post._time_offset # None
       /\ MaterializedFromSource(Pre) => last.calls = <<>>

\* C7: with an array resident, assigning an array of another dtype, size or
\* shape raises OverWriteError and keeps the resident array; assigning one of
\* the same dtype, size and shape succeeds and the next read of data returns
\* it. No loader routine is involved.
C7_ResidentOverwriteGuard ==
    (/\ last.op = "data="
     /\ Pre._data # None
     /\ last.arg # None)
    => LET old == Pre._data[1]
           new == last.arg[1]
       IN  /\ last.calls = <<>>
           /\ (new.dtype # old.dtype \/ Size(new) # Size(old)
                  \/ new.shape # old.shape) =>
                 /\ last.err = "OverWriteError"
                 /\ Post = Pre
           /\ (new.dtype = old.dtype /\ Size(new) = Size(old)
                  /\ new.shape = old.shape) =>
                 /\ last.err = NoError
                 /\ \A file \in LoaderResults :
                       LET read == data(Post, file)
                       IN  read.err = NoError /\ read.ret = last.arg

\* C7 witness: an array of the resident array's dtype and size but of another
\* shape was refused.
C7_Witness ==
    /\ last.op = "data="
    /\ Pre._data # None
    /\ last.arg # None
    /\ last.arg[1].dtype = Pre._data[1].dtype
    /\ Size(last.arg[1]) = Size(Pre._data[1])
    /\ last.arg[1].shape # Pre._data[1].shape
    /\ last.err = "OverWriteError"

\* C8 (as claimed): assigning None to data never raises, leaves the array
\* non-resident and leaves timevector, sampling_rate, time_offset and
\* metadata as they were, in every state. Stated for a Modality that has a
\* metadata object, so that the AttributeError of C3 plays no part.
C8_ReleaseAlwaysLegal ==
    (last.op = "data=" /\ last.arg = None /\ Pre.metadata # None)
    => /\ last.err = NoError
       /\ Post._data = None
       /\ Post._timevector = Pre._timevector
       /\ Post._sampling_rate = Pre._sampling_rate
       /\ Post._time_offset = Pre._time_offset
       /\ Post.metadata = Pre.metadata

\* C9 (as claimed): with no array resident, assigning an array of any dtype,
\* size and shape succeeds and the next read of data returns it. Stated for a
\* Modality that has a metadata object, so that the AttributeError of C3
\* plays no part.
C9_FirstAssignmentSucceeds ==
    (/\ last.op = "data="
     /\ last.arg # None
     /\ Pre._data = None
     /\ Pre.metadata # None)
    => /\ last.err = NoError
       /\ Post._data = last.arg
       /\ \A file \in LoaderResults : data(Post, file).ret = last.arg

\* The new vector differs from the stored one in dtype, size or shape.
LayoutDiffers(new, old) ==
    new.dtype # old.dtype \/ Size(new) # Size(old) \/ new.shape # old.shape

\* C10 (as claimed): assigning a timevector raises OverWriteError on a dtype,
\* size or shape mismatch, raises NotImplementedError when no timevector is
\* stored and when the new value is None, and every such failure leaves
\* timevector and time_offset as they were.
C10_TimevectorSetterErrors ==
    last.op = "timevector=" =>
       /\ (Pre._timevector # None /\ last.arg # None
              /\ LayoutDiffers(last.arg[1], Pre._timevector[1])) =>
             last.err = "OverWriteError"
       /\ Pre._timevector = None => last.err = "NotImplementedError"
       /\ last.arg = None => last.err = "NotImplementedError"
       /\ last.err \in {"OverWriteError", "NotImplementedError"} =>
             /\ Post._timevector = Pre._timevector
             /\ Post._time_offset = Pre._time_offset

\* C10 (amended): assigning a timevector raises OverWriteError when no
\* timevector is stored, whatever the new value, and when the new vector's
\* dtype, size or shape differs from the stored one; it raises
\* NotImplementedError when a timevector is stored and the new value is None;
\* each of these failures leaves the whole Modality as it was.
C10_TimevectorSetterErrorsAmended ==
    last.op = "timevector=" =>
       /\ Pre._timevector = None =>
             last.err = "OverWriteError" /\ Post = Pre
       /\ (Pre._timevector # None /\ last.arg = None) =>
             last.err = "NotImplementedError" /\ Post = Pre
       /\ (Pre._timevector # None /\ last.arg # None
              /\ LayoutDiffers(last.arg[1], Pre._timevector[1])) =>
             last.err = "OverWriteError" /\ Post = Pre

\* C10 witness: None was assigned while no timevector was stored, and the
\* call raised OverWriteError.
C10_Witness ==
    /\ last.op = "timevector="
    /\ Pre._timevector = None
    /\ last.arg = None
    /\ last.err = "OverWriteError"

\* C11: assigning time_offset t to a Modality with a resident timevector of
\* any length completes without error, adds (t - old timevector[0]) to every
\* element of the timevector, and ends with timevector[0] = time_offset = t;
\* the array and the sampling_rate are as before.
C11_TimeOffsetSetterShifts ==
    (last.op = "time_offset=" /\ Pre._timevector # None) =>
       LET old == Pre._timevector[1]
           t   == last.arg[1]
       IN  /\ last.err = NoError
           /\ Post._timevector # None
           /\ Post._timevector[1].shape = old.shape
           /\ \A i \in 1..Size(old) :
                 Post._timevector[1].vals[i] = old.vals[i] + (t - old.vals[1])
           /\ Post._time_offset = Some(t)
           /\ Post._data = Pre._data
           /\ Post._sampling_rate = Pre._sampling_rate

\* The parameters and the outcome of the generate_name call before this one.
Earlier == last.pre[1]

\* Two parameter objects are alike in every field but release_data_memory.
DifferAtMostInReleaseDataMemory(p, q) ==
    [p EXCEPT !.release_data_memory = FALSE] = [q EXCEPT !.release_data_memory = FALSE]

\* C12: generate_name returns a name that is a function of the parameters
\* other than release_data_memory: two calls whose parameters are the same,
\* or differ only in release_data_memory, both return the same string.
C12_NameIgnoresReleaseDataMemory ==
    (/\ last.op = "generate_name"
     /\ last.pre # None
     /\ DifferAtMostInReleaseDataMemory(Earlier.arg[1], last.arg[1])) =>
       /\ last.err = NoError
       /\ Earlier.err = NoError
       /\ last.ret # None
       /\ last.ret = Earlier.ret

\* Two parameter objects are alike in every field but the named one.
DifferOnlyIn(p, q, field) ==
    /\ p[field] # q[field]
    /\ \A f \in DOMAIN p \ {field} : p[f] = q[f]

\* C13: for the same parent_name generate_name returns different names for
\* parameters that differ only in metric, and different names for parameters
\* that differ only in timestep when the metric is not a shape metric.
C13_NameSeparatesMetricAndTimestep ==
    (last.op = "generate_name" /\ last.pre # None) =>
       LET p == Earlier.arg[1]
           q == last.arg[1]
           BothNamed == /\ last.err = NoError /\ Earlier.err = NoError
                        /\ last.ret # None /\ Earlier.ret # None
       IN  /\ DifferOnlyIn(p, q, "metric") =>
                 BothNamed /\ last.ret # Earlier.ret
           /\ (DifferOnlyIn(p, q, "timestep") /\ p.metric \notin SplineShapesEnum) =>
                 BothNamed /\ last.ret # Earlier.ret

\* The parameter object is marked as downsampled.
MarkedDownsampled(p) == HasAttr(p, "is_downsampled") /\ p.is_downsampled

\* The name of a SplineMetric that is not downsampled: the kind, the metric,
\* the timestep where it matters, and the parent.
UndownsampledName(p) ==
    "SplineMetric " \o p.metric
    \o (IF p.timestep # 1 /\ p.metric \notin SplineShapesEnum
        THEN " ts" \o ToString(p.timestep) ELSE "")
    \o (IF p.parent_name[1] # "" THEN " on " \o p.parent_name[1] ELSE "")

\* C14: generate_name always returns a name: for parameters not marked as
\* downsampled the name without a suffix, and for parameters marked as
\* downsampled with ratio r that name followed by " downsampled by " and r.
C14_DownsampledSuffix ==
    last.op = "generate_name" =>
       LET p == last.arg[1]
       IN  /\ last.err = NoError
           /\ last.ret # None
           /\ ~MarkedDownsampled(p) => last.ret = Some(UndownsampledName(p))
           /\ MarkedDownsampled(p) =>
                 last.ret = Some(UndownsampledName(p) \o " downsampled by "
                                 \o ToString(p.downsampling_ratio))

\* The number of values a list argument stands for; an absent or empty list
\* stands for its one default.
Count(list) == IF list = None \/ list[1] = <<>> THEN 1 ELSE Len(list[1])

\* C15: get_names_and_meta returns a mapping with one entry for every
\* combination of a metric and a timestep; each key is generate_name of its
\* own parameter object, and every parameter object carries the given
\* exclude_points and release_data_memory.
C15_NamesAndMetaProduct ==
    last.op = "get_names_and_meta" =>
       LET a == last.arg[1]
       IN  /\ last.err = NoError
           /\ last.ret # None
           /\ Len(last.ret[1]) = Count(a.metrics) * Count(a.timesteps)
           /\ \A i \in DOMAIN last.ret[1] :
                 LET key    == last.ret[1][i][1]
                     params == last.ret[1][i][2]
                 IN  /\ generate_name("SplineMetric", Some(params)).val = Some(key)
                     /\ params.exclude_points = a.exclude_points
                     /\ params.release_data_memory = a.release_data_memory

\* C16 (as claimed): on a SplineMetric constructed without parsed data and
\* without a load_path, reading data, timevector or sampling_rate raises
\* NotImplementedError; on a SplineMetric constructed with parsed data these
\* reads do not reach _derive_data. Stated for a SplineMetric whose
\* parameters name its parent.
C16_SplineMetricNeverDerived ==
    (/\ last.op \in {"data", "timevector", "sampling_rate"}
     /\ Pre.cls = "SplineMetric"
     /\ Pre.metadata # None
     /\ TruthyStr(Pre.metadata[1].parent_name)) =>
       /\ (Unmaterialized(Pre) /\ ~Pre.load_path) =>
             last.err = "NotImplementedError"
       /\ (\E p \in ParsedInputs : Pre \in ConstructedWith(p)) =>
             /\ last.err = NoError
             /\ last.calls = <<>>

\* The Modality that the last downsample_modality call returned, and its ratio.
Downsampled == last.ret[1]
Ratio == last.arg[1].ratio

\* b holds every step-th element of a along the first axis, from the first on.
EveryNth(a, b, step) ==
    /\ b.dtype = a.dtype
    /\ Len(b.shape) = Len(a.shape)
    /\ b.shape[1] = (a.shape[1] + step - 1) \div step
    /\ \A i \in 1..b.shape[1] : b.vals[i] = a.vals[(i - 1) * step + 1]

\* The rate q is the rate p divided by step.
RateIsDivided(p, q, step) == q[1] * p[2] * step = p[1] * q[2]

\* C17 (as claimed): for a materialized Modality and a ratio r >= 1,
\* downsample_modality returns a new Modality of the same kind whose data and
\* timevector are every r-th element of the input's and whose sampling_rate
\* is the input's divided by r, and the input's data, timevector and
\* sampling_rate are as before. Stated for a Modality that has metadata and
\* has no data_path, so that no file is read again.
C17_DownsampleEveryNth ==
    (/\ last.op = "downsample_modality"
     /\ Materialized(Pre)
     /\ Pre.metadata # None
     /\ ~Pre.data_path) =>
       /\ last.err = NoError
       /\ last.ret # None
       /\ Downsampled.cls = Pre.cls
       /\ Materialized(Downsampled)
       /\ EveryNth(Pre._data[1], Downsampled._data[1], Ratio)
       /\ EveryNth(Pre._timevector[1], Downsampled._timevector[1], Ratio)
       /\ RateIsDivided(Pre._sampling_rate[1], Downsampled._sampling_rate[1], Ratio)
       /\ Post._data = Pre._data
       /\ Post._timevector = Pre._timevector
       /\ Post._sampling_rate = Pre._sampling_rate

\* The input is a base Modality whose only data is the parsed data it was
\* constructed with, beginning at 0.0.
PreSuppliedFromZero(o) ==
    /\ o.cls = "Splines"
    /\ o.metadata # None
    /\ ~TruthyStr(o.metadata[1].parent_name)
    /\ ~o.data_path
    /\ ~o.load_path
    /\ Materialized(o)
    /\ o._timevector[1].vals[1] = 0

\* C18 (as claimed): downsampling a base Modality of kind K by ratio r
\* succeeds when its only data is pre-supplied and its timevector starts at
\* 0.0, and the result is named "K downsampled by r"; for 10 samples at
\* 100 Hz and ratio 2 the result has sampling_rate 50, 5 samples and the
\* timestamps 0, 20, 40, 60 and 80 ms.
C18_DownsampledBaseModality ==
    (last.op = "downsample_modality" /\ PreSuppliedFromZero(Pre)) =>
       /\ last.err = NoError
       /\ last.ret # None
       /\ name(Downsampled).val
             = Some(Pre.cls \o " downsampled by " \o ToString(Ratio))
       /\ (/\ Pre._data = Some(SensorData.data)
           /\ Pre._timevector = Some(SensorData.timevector)
           /\ Pre._sampling_rate = Some(SensorData.sampling_rate)
           /\ Ratio = 2) =>
             /\ Downsampled._sampling_rate = Some(Hz(50))
             /\ Downsampled._data[1].shape = <<5>>
             /\ Downsampled._timevector[1].vals = <<0, 2, 4, 6, 8>>

\* The run of downsample_metrics before the last one, when the last one
\* repeated it, and the instances as they were before the last run.
FirstRun == last.pre[1].repeated[1]
HeapBefore == last.pre[1].heap

ToDownsample(key, o, a) ==
    /\ IsSubstring(a.modality_pattern, key)
    /\ o.metadata # None
    /\ HasAttr(o.metadata[1], "timestep")
    /\ \E k \in DOMAIN a.downsampling_ratios :
          a.downsampling_ratios[k] = o.metadata[1].timestep

\* The canonical name of the downsampled form of a metric Modality.
CanonicalName(o) ==
    UndownsampledName(o.metadata[1]) \o " downsampled by "
    \o ToString(o.metadata[1].timestep)

\* C20 (as claimed): with match_timestep true downsample_metrics completes;
\* every Modality that was in the Recording is still there, under its name
\* and unchanged; and the names added are exactly the canonical downsampled
\* names, not in the Recording before, of the Modalities whose name holds
\* the pattern and whose timestep is one of the ratios, each standing for its
\* source downsampled by the source's own timestep.
C20_DownsamplesMatchingMetrics ==
    (last.op = "downsample_metrics" /\ last.arg[1].match_timestep) =>
       LET a      == last.arg[1]
           before == last.premap
           Added  == DOMAIN modalities \ DOMAIN before
           Source(i) == HeapBefore[before[i][2]][1]
           Wanted == {i \in DOMAIN before :
                        /\ ToDownsample(before[i][1], Source(i), a)
                        /\ ~Contains(before, CanonicalName(Source(i)))}
       IN  /\ last.err = NoError
           /\ \A i \in DOMAIN before :
                 /\ i \in DOMAIN modalities
                 /\ modalities[i] = before[i]
                 /\ heap[before[i][2]] = HeapBefore[before[i][2]]
           /\ {modalities[j][1] : j \in Added}
                 = {CanonicalName(Source(i)) : i \in Wanted}
           /\ \A j \in Added :
                 \E i \in Wanted :
                    LET src == Source(i)
                        new == heap[modalities[j][2]][1]
                        r   == src.metadata[1].timestep
                    IN  /\ modalities[j][1] = CanonicalName(src)
                        /\ EveryNth(src._data[1], new._data[1], r)
                        /\ EveryNth(src._timevector[1], new._timevector[1], r)

\* C21 (as claimed): downsample_metrics called with match_timestep false
\* raises NotImplementedError and leaves the Recording's mapping as it was,
\* whatever the pattern and the ratios.
C21_UnmatchedNotImplemented ==
    (last.op = "downsample_metrics" /\ ~last.arg[1].match_timestep) =>
       /\ last.err = "NotImplementedError"
       /\ modalities = last.premap

\* The names stored in a mapping, in the order they were added.
Keys(dict) == [i \in DOMAIN dict |-> dict[i][1]]

\* C22 (as claimed): a Recording is accessed like a mapping by name:
\* recording[name] returns the instance added under the name, name in
\* recording is true for exactly the names added, and iterating over the
\* recording yields every stored name once.
C22_MappingAccess ==
    /\ (last.op = "__getitem__" /\ Contains(modalities, last.arg[1])) =>
          /\ last.err = NoError
          /\ last.ret = Some(Lookup(modalities, last.arg[1]))
    /\ last.op = "__contains__" =>
          /\ last.err = NoError
          /\ last.ret = Some(Contains(modalities, last.arg[1]))
    /\ last.op = "__iter__" =>
          /\ last.err = NoError
          /\ last.ret = Some(Keys(modalities))
          /\ NoDuplicateKeys(modalities)


\* The heap and the Recording before the last call, for the calls that
\* record both.
HeapPre == last.pre[1].heap
RecordingPre == last.pre[1].recording

C24_TextGridNeverFails ==
    last.op = "Recording" =>
       /\ last.err = NoError
       /\ last.arg[1].file \in {None, Some(None)} =>
             /\ recording.textgrid = Some(TextGrid)
             /\ modalities = <<>>
             /\ recording.annotations = <<>>
             /\ recording.excluded = last.arg[1].excluded


\* The SatTier the last call built: its SatIntervals and its list of them.
BuiltObjs == last.ret[1].objs
BuiltList == last.ret[1].list

\* C30: a SatTier built from a tier of n >= 1 intervals holds n + 1 distinct
\* SatIntervals linked both ways in list order: each one's next_interval is
\* its successor and each successor's prev is it, the first has no prev and
\* the last no next_interval, every non-last end is the successor's begin,
\* and the last one begins at the tier's last xmax and has no end and no mid.
C30_SatTierLinkedList ==
    (last.op = "SatTier" /\ last.arg[1] # PointTier /\ Len(last.arg[1]) >= 1) =>
       LET tier == last.arg[1]
           n    == Len(tier)
       IN  /\ last.err = NoError
           /\ Len(BuiltList) = n + 1
           /\ Cardinality({BuiltList[i] : i \in 1..(n + 1)}) = n + 1
           /\ \A i \in 1..n :
                 /\ BuiltObjs[BuiltList[i]].next_interval = Some(BuiltList[i + 1])
                 /\ BuiltObjs[BuiltList[i + 1]].prev = Some(BuiltList[i])
                 /\ BuiltObjs[BuiltList[i]].begin = tier[i].xmin
                 /\ SatInterval_end(BuiltObjs, BuiltList[i])
                       = Some(BuiltObjs[BuiltList[i + 1]].begin)
           /\ BuiltObjs[BuiltList[1]].prev = None
           /\ BuiltObjs[BuiltList[n + 1]].next_interval = None
           /\ BuiltObjs[BuiltList[n + 1]].begin = tier[n].xmax
           /\ SatInterval_end(BuiltObjs, BuiltList[n + 1]) = None
           /\ SatInterval_mid(BuiltObjs, BuiltList[n + 1]) = None

\* A SatTier is built of a tier of the most intervals drawn.
C30_Witness ==
    /\ last.op = "SatTier"
    /\ last.err = NoError
    /\ Len(last.arg[1]) = MaxIntervals
    /\ Len(BuiltList) = MaxIntervals + 1
    /\ BuiltObjs[BuiltList[MaxIntervals]].next_interval = Some(BuiltList[MaxIntervals + 1])


\* The names that are keys of dict.
KeySet(dict) == {dict[i][1] : i \in DOMAIN dict}

\* C25: a call of add_modality, insert or replace, successful or refused,
\* changes nothing but the mapping entry under the added modality's name:
\* every other name stays bound to the instance it was bound to, no name but
\* that one appears or disappears, and every Modality (a child of the
\* replaced one too) and the Recording's other fields are as before.
C25_AddModalityFrame ==
    [][last'.op = "add_modality" =>
          /\ heap' = heap
          /\ recording' = recording
          /\ \A key \in KeySet(modalities) \cup KeySet(modalities') :
                (name(heap[last'.id][1]).err # NoError
                 \/ key # name(heap[last'.id][1]).val[1]) =>
                   /\ Contains(modalities, key)
                   /\ Contains(modalities', key)
                   /\ Lookup(modalities', key) = Lookup(modalities, key)]_vars

\* A name is replaced while the mapping holds, under another name, a Modality
\* with resident data whose parent_name is the replaced name.
C25_Witness ==
    /\ last.op = "add_modality"
    /\ last.arg = Some(TRUE)
    /\ last.err = NoError
    /\ Contains(last.premap, AddedName)
    /\ \E i \in DOMAIN modalities :
          /\ modalities[i][1] # AddedName
          /\ heap[modalities[i][2]][1]._data # None
          /\ heap[modalities[i][2]][1].metadata # None
          /\ heap[modalities[i][2]][1].metadata[1].parent_name = Some(AddedName)


\* C26: a Modality whose array and timevector are both resident has a
\* timevector as long as the first axis of the array.
C26_LengthsAgree ==
    \A id \in Live :
        (heap[id][1]._data # None /\ heap[id][1]._timevector # None) =>
            Len(heap[id][1]._timevector[1].vals) = heap[id][1]._data[1].shape[1]


\* A Modality of two samples was downsampled to a resident Modality of one
\* sample after its timevector had been assigned.
C26_Witness ==
    /\ last.op = "downsample_modality"
    /\ last.err = NoError
    /\ heap[last.arg[1].new] # None
    /\ heap[last.arg[1].new][1]._data # None
    /\ heap[last.arg[1].new][1]._timevector # None
    /\ Len(heap[last.arg[1].new][1]._timevector[1].vals) = 1
    /\ Len(Post._timevector[1].vals) = 2
    /\ Post._timevector[1].vals[1] = 3


\* C27: whenever a Modality's timevector is resident, its stored time_offset
\* is the first timestamp of that timevector.
C27_TimeOffsetIsFirstTimestamp ==
    \A id \in Live :
        heap[id][1]._timevector # None =>
            heap[id][1]._time_offset = Some(heap[id][1]._timevector[1].vals[1])

\* C28: the timevector outlives the array. Releasing a resident array leaves
\* the timevector as it was, reading the timevector of a released Modality
\* returns that vector and invokes no routine, and reading data again, which
\* materializes the array anew, leaves the timevector as it was.
C28_TimevectorPersists ==
    /\ (last.op = "data=" /\ last.arg = None /\ Pre._data # None
        /\ Pre._timevector # None) =>
          /\ last.err = NoError
          /\ Post._data = None
          /\ Post._timevector = Pre._timevector
    /\ (last.op = "timevector" /\ Pre._data = None /\ Pre._timevector # None) =>
          /\ last.err = NoError
          /\ last.ret = Pre._timevector
          /\ last.calls = <<>>
    /\ (last.op = "data" /\ Pre._data = None /\ Pre._timevector # None) =>
          Post._timevector = Pre._timevector


\* C29: time_precision is computed at most once for a Modality. A read that
\* finds no stored precision stores the one it returns; a read that finds a
\* stored precision, be it 0, returns it without computing anything and
\* leaves it stored, also after the timevector was assigned or shifted.
C29_TimePrecisionComputedOnce ==
    last.op = "time_precision" =>
       /\ (Pre._time_precision = None /\ last.err = NoError) =>
             /\ last.ret # None
             /\ Post._time_precision = last.ret
       /\ Pre._time_precision # None =>
             /\ last.err = NoError
             /\ last.calls = <<>>
             /\ last.ret = Pre._time_precision
             /\ Post._time_precision = Pre._time_precision

====
